---- MODULE Spec2Model ----
(***************************************************************************)
(* The CeloCrowdfund registry and its Project campaigns (the Solidity      *)
(* contracts of src/README.md, part 1), driven by any account at any       *)
(* block time, against an ERC-20 token (cUSD) that may succeed, return     *)
(* false or revert.  Every contract call is one atomic transaction: a      *)
(* reverted call changes nothing but the record of the last call.  The     *)
(* interaction script (src/interact.js and its later version) is a         *)
(* process of its own, run under SpecScript.                               *)
(***************************************************************************)
EXTENDS Integers, Sequences, FiniteSets, TLC

VARIABLES
    now,        \* block.timestamp
    registry,   \* CeloCrowdfund.projects: the addresses of the projects it created
    projects,   \* the Project contracts by address (an address is a deployment number)
    token,      \* the cUSD ledger: wallet balances, project custody, allowances
    hist,       \* per project: what its payOut calls have done so far (history)
    faults,     \* how many transferFrom calls returned false and were ignored
    lastCall,   \* the call of the last step: its inputs, result, events, token request
    script      \* the interaction script: where it is, and what it holds

vars == <<now, registry, projects, token, hist, faults, lastCall, script>>

----------------------------------------------------------------------------
(* Bounds of the model *)

MaxAmount == 1
MaxDays == 1
MaxTicks == 1
MaxProjects == 1
MaxFaults == 1
RegistryProjects == 3
ScriptProjects == 3
WalletFunds == 5
UintBits == 20

(* Program constants *)

SecondsPerDay == 86400

\* The amounts of the interaction script, in cUSD (1E18 units each).
ScriptDays == 5
ScriptGoal == 1
SendAmount == 2
ApproveInteract == 5
ApproveLater == 500

MaxUint == 2^UintBits - 1

Addr == {"alice", "bob"}

\* Amounts a caller may pass: small ones, and the largest uint.
Amounts == (0..MaxAmount) \cup {MaxUint}

\* Durations a caller may pass: small ones, and the smallest whose
\* multiplication by 1 days overflows.
HugeDays == (MaxUint \div SecondsPerDay) + 1
Durations == (0..MaxDays) \cup {HugeDays}

Goals == {0, 1}

Metas == {<<"Test project", "We are testing the create project function", "https://i.imgur.com/Flfo4hJ.png">>}

\* What an ERC-20 call may do: move the funds, return false, or revert.
TokenOutcomes == {"ok", "false", "revert"}

----------------------------------------------------------------------------
(* SafeMath *)

\* Variant of AddFits for an addition without SafeMath: nothing is rejected.
AddFits_Unchecked(a, b) == TRUE

\* SafeMath.add and SafeMath.mul revert when the result does not fit a uint.
AddFits(a, b) == a + b <= MaxUint
MulFits(a, b) == a * b <= MaxUint

RECURSIVE SumOver(_, _)
SumOver(f, S) ==
    IF S = {} THEN 0
    ELSE LET a == CHOOSE x \in S : TRUE IN f[a] + SumOver(f, S \ {a})

\* The sum of a project's contributions mapping over all contributors.
TotalContributed(proj) == SumOver(proj.contributions, Addr)

----------------------------------------------------------------------------
(* The ERC-20 token (IERC20): balances, custody of each project, allowances *)

\* transferFrom(from, project p, amount) can move the funds only if `from`
\* holds them and has approved the project for them.
CanTransferFrom(tk, from, p, amount) ==
    /\ tk.balanceOf[from] >= amount
    /\ tk.allowance[p][from] >= amount

TransferFrom(tk, from, p, amount) ==
    [tk EXCEPT !.balanceOf[from] = @ - amount,
               !.allowance[p][from] = @ - amount,
               !.custody[p] = @ + amount]

\* transfer(to, amount) called by project p moves funds out of its custody.
CanTransfer(tk, p, amount) == tk.custody[p] >= amount

Transfer(tk, p, to, amount) ==
    [tk EXCEPT !.custody[p] = @ - amount,
               !.balanceOf[to] = @ + amount]

----------------------------------------------------------------------------
(* The Project contract *)

\* Variant of NewProject with the deadline and the goal taken from each other's
\* argument.
NewProject_Swapped(projectCreator, meta, fundRaisingDeadline, projectGoalAmount) ==
    [creator |-> projectCreator,
     title |-> meta[1],
     description |-> meta[2],
     imageLink |-> meta[3],
     goalAmount |-> fundRaisingDeadline,
     raisingDeadline |-> projectGoalAmount,
     completeAt |-> 0,
     currentBalance |-> 0,
     state |-> "Fundraising",
     contributions |-> [a \in Addr |-> 0]]

\* constructor: the fields fixed at construction, state Fundraising,
\* currentBalance 0, every contributions entry 0, completeAt never set.
NewProject(projectCreator, meta, fundRaisingDeadline, projectGoalAmount) ==
    [creator |-> projectCreator,
     title |-> meta[1],
     description |-> meta[2],
     imageLink |-> meta[3],
     goalAmount |-> projectGoalAmount,
     raisingDeadline |-> fundRaisingDeadline,
     completeAt |-> 0,
     currentBalance |-> 0,
     state |-> "Fundraising",
     contributions |-> [a \in Addr |-> 0]]

\* Variants of theState as a slip would leave it: a guard that lets every state
\* through, and one that only keeps Successful out.
theState_Always(proj, s) == TRUE
theState_NotSuccessful(proj, s) == proj.state # "Successful"

\* modifier theState(_state): require(state == _state)
theState(proj, s) == proj.state = s

\* Variant of ContributeLedger that forgets currentBalance.
ContributeLedger_NoBalance(proj, sender, amount) ==
    [proj EXCEPT !.contributions[sender] = @ + amount]

\* Variant of ContributeLedger that stores the amount instead of adding it.
ContributeLedger_Overwrite(proj, sender, amount) ==
    [proj EXCEPT !.contributions[sender] = amount,
                 !.currentBalance = @ + amount]

\* Variant of ContributeLedger that adds the amount to goalAmount instead of
\* currentBalance.
ContributeLedger_RaisesGoal(proj, sender, amount) ==
    [proj EXCEPT !.contributions[sender] = @ + amount,
                 !.goalAmount = @ + amount]

\* Variant of ContributeLedger that closes the campaign when the goal is reached.
ContributeLedger_GoalReached(proj, sender, amount) ==
    [proj EXCEPT !.contributions[sender] = @ + amount,
                 !.currentBalance = @ + amount,
                 !.state = IF proj.currentBalance + amount >= proj.goalAmount
                           THEN "Successful" ELSE @]

\* contribute, after the transferFrom call: the two SafeMath additions.
ContributeLedger(proj, sender, amount) ==
    [proj EXCEPT !.contributions[sender] = @ + amount,
                 !.currentBalance = @ + amount]

\* Variants of checkIfFundingExpired: the comparison the wrong way round, and
\* the state never touched.
checkIfFundingExpired_Flipped(proj, t) ==
    IF t < proj.raisingDeadline THEN "Expired" ELSE proj.state
checkIfFundingExpired_Skipped(proj, t) == proj.state

\* checkIfFundingExpired: the state it leaves.
checkIfFundingExpired(proj, t) ==
    IF t > proj.raisingDeadline THEN "Expired" ELSE proj.state

\* Variants of PayOutAllowed: without the creator check, with a state check
\* that shuts Expired projects out, with a check that the goal is reached, and
\* with contributors let in as well.
PayOutAllowed_Anyone(proj, sender) == TRUE
PayOutAllowed_NotExpired(proj, sender) ==
    sender = proj.creator /\ proj.state # "Expired"
PayOutAllowed_GoalReached(proj, sender) ==
    sender = proj.creator /\ proj.currentBalance >= proj.goalAmount
PayOutAllowed_Contributor(proj, sender) ==
    sender = proj.creator \/ proj.contributions[sender] > 0

\* payOut: require(msg.sender == creator)
PayOutAllowed(proj, sender) == sender = proj.creator

\* Variants of PayOutAmount: the whole custody balance, and everything ever
\* contributed.
PayOutAmount_Custody(proj, custody) == custody
PayOutAmount_Contributed(proj, custody) == TotalContributed(proj)

\* payOut: the amount it asks the token to transfer (totalRaised).
PayOutAmount(proj, custody) == proj.currentBalance

\* Variants of PayOutSucceeded: currentBalance put back after the transfer,
\* the state left as it was, and the contributions wiped.
PayOutSucceeded_KeepBalance(proj, totalRaised) ==
    [proj EXCEPT !.currentBalance = totalRaised, !.state = "Successful"]
PayOutSucceeded_KeepState(proj, totalRaised) ==
    [proj EXCEPT !.currentBalance = 0]
PayOutSucceeded_ClearsContributions(proj, totalRaised) ==
    [proj EXCEPT !.currentBalance = 0, !.state = "Successful",
                 !.contributions = [a \in Addr |-> 0]]

\* payOut: the project after a transfer that returned true.
PayOutSucceeded(proj, totalRaised) ==
    [proj EXCEPT !.currentBalance = 0, !.state = "Successful"]

\* Variants of PayOutFailed: currentBalance left at 0, and the contributions
\* wiped.
PayOutFailed_NoRestore(proj, totalRaised) ==
    [proj EXCEPT !.currentBalance = 0, !.state = "Successful"]
PayOutFailed_ClearsContributions(proj, totalRaised) ==
    [proj EXCEPT !.currentBalance = totalRaised, !.state = "Successful",
                 !.contributions = [a \in Addr |-> 0]]

\* payOut: the project after a transfer that returned false.
PayOutFailed(proj, totalRaised) ==
    [proj EXCEPT !.currentBalance = totalRaised, !.state = "Successful"]

\* Variant of PayOutEvents with the emit placed before the if.
PayOutEvents_Always(proj, paid) ==
    <<[name |-> "CreatorPaid", recipient |-> proj.creator]>>

\* payOut: emit CreatorPaid(creator) is in the branch of a transfer that
\* returned true, and the other branch emits nothing.
PayOutEvents(proj, paid) ==
    IF paid THEN <<[name |-> "CreatorPaid", recipient |-> proj.creator]>>
    ELSE <<>>

----------------------------------------------------------------------------
(* Transactions *)

\* What a step leaves for an observer: the operation, the project, the sender,
\* the result, the token transfer the call asked for (<<>>, or the amount
\* and what the token did) and the events it emitted; for a call of a project
\* that went through, `was` is the project's state before it, and for
\* startProject `args` is <<durationInDays, amountToRaise>>.
Call(op, p, sender, result, requested, events) ==
    [op |-> op, p |-> p, sender |-> sender,
     result |-> result, requested |-> requested, events |-> events,
     was |-> "", args |-> <<>>]

Asked(amount, tok) == <<[amount |-> amount, outcome |-> tok]>>

\* A reverted transaction: nothing changes; `requested` is the token
\* transfer it had asked for before reverting, if any.
Reverted(op, p, sender, requested) ==
    /\ lastCall' = Call(op, p, sender, "reverted", requested, <<>>)
    /\ UNCHANGED <<now, registry, projects, token, hist, faults>>

\* Project.contribute(amount) sent by `sender`; the token's transferFrom
\* does `tok`, and its return value is not looked at.
Contribute(p, sender, amount, tok) ==
    LET proj == projects[p]
        funded == ContributeLedger(proj, sender, amount)
        final == [funded EXCEPT !.state = checkIfFundingExpired(funded, now)]
    IN
    /\ tok = "ok" => CanTransferFrom(token, sender, p, amount)
    /\ tok = "false" => faults < MaxFaults
    /\ IF ~theState(proj, "Fundraising")
       THEN Reverted("contribute", p, sender, <<>>)
       ELSE IF \/ tok = "revert"
               \/ ~AddFits(proj.contributions[sender], amount)
               \/ ~AddFits(proj.currentBalance, amount)
       THEN Reverted("contribute", p, sender, Asked(amount, "revert"))
       ELSE /\ projects' = [projects EXCEPT ![p] = final]
            /\ token' = IF tok = "ok" THEN TransferFrom(token, sender, p, amount)
                        ELSE token
            /\ faults' = IF tok = "false" THEN faults + 1 ELSE faults
            /\ lastCall' = [Call("contribute", p, sender, "ok", Asked(amount, tok),
                   <<[name |-> "ReceivedFunding", contributor |-> sender,
                      amount |-> amount, currentTotal |-> funded.currentBalance]>>)
                   EXCEPT !.was = proj.state]
            /\ UNCHANGED <<now, registry, hist>>

\* Variant of CheckIfFundingExpired with the state kept in one place for all
\* the projects.
CheckIfFundingExpired_Shared(p, sender) ==
    /\ projects' = [q \in 1..Len(projects) |->
                      [projects[q] EXCEPT
                          !.state = checkIfFundingExpired(projects[p], now)]]
    /\ lastCall' = [Call("checkIfFundingExpired", p, sender, "ok", <<>>, <<>>)
                       EXCEPT !.was = projects[p].state]
    /\ UNCHANGED <<now, registry, token, hist, faults>>

\* Project.checkIfFundingExpired() sent by anyone.
CheckIfFundingExpired(p, sender) ==
    /\ projects' = [projects EXCEPT
                      ![p].state = checkIfFundingExpired(projects[p], now)]
    /\ lastCall' = [Call("checkIfFundingExpired", p, sender, "ok", <<>>, <<>>)
                       EXCEPT !.was = projects[p].state]
    /\ UNCHANGED <<now, registry, token, hist, faults>>

\* Project.payOut() sent by `sender`; the token's transfer does `tok`.
PayOut(p, sender, tok) ==
    LET proj == projects[p]
        totalRaised == PayOutAmount(proj, token.custody[p])
    IN
    /\ tok = "ok" => CanTransfer(token, p, totalRaised)
    /\ IF ~PayOutAllowed(proj, sender)
       THEN Reverted("payOut", p, sender, <<>>)
       ELSE IF tok = "revert"
       THEN Reverted("payOut", p, sender, Asked(totalRaised, "revert"))
       ELSE IF tok = "ok"
       THEN /\ projects' = [projects EXCEPT ![p] = PayOutSucceeded(proj, totalRaised)]
            /\ token' = Transfer(token, p, sender, totalRaised)
            /\ hist' = [hist EXCEPT ![p] = [attempted |-> TRUE, paid |-> TRUE,
                                           paidOut |-> @.paidOut + totalRaised]]
            /\ lastCall' = [Call("payOut", p, sender, "true", Asked(totalRaised, "ok"),
                                 PayOutEvents(proj, TRUE))
                   EXCEPT !.was = proj.state]
            /\ UNCHANGED <<now, registry, faults>>
       ELSE /\ projects' = [projects EXCEPT ![p] = PayOutFailed(proj, totalRaised)]
            /\ hist' = [hist EXCEPT ![p].attempted = TRUE]
            /\ lastCall' = [Call("payOut", p, sender, "false",
                                 Asked(totalRaised, "false"),
                                 PayOutEvents(proj, FALSE))
                   EXCEPT !.was = proj.state]
            /\ UNCHANGED <<now, registry, token, faults>>

\* payOut, statement by statement, for a call that is entered again while its
\* transfer is under way: currentBalance = 0 before the transfer, and the
\* branch of a transfer that returned true, which assigns the state only.
PayOutZeroed(proj) == [proj EXCEPT !.currentBalance = 0]
PayOutReturnedTrue(proj) == [proj EXCEPT !.state = "Successful"]

\* The call a token's transfer makes back into the project during payOut:
\* payOut() or contribute(amount) with `caller` as msg.sender, on the project
\* as payOut has left it so far and the token ledger tk.  The result is
\* <<the call went through, project, token ledger, events, paid out>>; the inner
\* transfer of payOut does tokIn, the inner transferFrom of contribute is done.
Reenter(inner, caller, amount, tokIn, proj, tk, p, t) ==
    IF inner = "payOut"
    THEN IF ~PayOutAllowed(proj, caller) \/ tokIn = "revert"
         THEN <<FALSE, proj, tk, <<>>, 0>>
         ELSE IF tokIn = "ok"
         THEN <<CanTransfer(tk, p, PayOutAmount(proj, tk.custody[p])),
                PayOutSucceeded(proj, PayOutAmount(proj, tk.custody[p])),
                Transfer(tk, p, caller, PayOutAmount(proj, tk.custody[p])),
                PayOutEvents(proj, TRUE),
                PayOutAmount(proj, tk.custody[p])>>
         ELSE <<TRUE, PayOutFailed(proj, PayOutAmount(proj, tk.custody[p])), tk,
                PayOutEvents(proj, FALSE), 0>>
    ELSE IF \/ ~theState(proj, "Fundraising")
            \/ ~CanTransferFrom(tk, caller, p, amount)
            \/ ~AddFits(proj.contributions[caller], amount)
            \/ ~AddFits(proj.currentBalance, amount)
         THEN <<FALSE, proj, tk, <<>>, 0>>
         ELSE LET funded == ContributeLedger(proj, caller, amount)
              IN <<TRUE,
                   [funded EXCEPT !.state = checkIfFundingExpired(funded, t)],
                   TransferFrom(tk, caller, p, amount),
                   <<[name |-> "ReceivedFunding", contributor |-> caller,
                      amount |-> amount, currentTotal |-> funded.currentBalance]>>,
                   0>>

\* Project.payOut() sent by `sender` with a token whose transfer, after doing
\* `tok` ("ok": the funds are moved; "false": they are not and it will return
\* false), calls back into the project before it returns.  A call back that
\* reverts takes the whole transaction with it.
PayOutReentered(p, sender, tok, inner, caller, amount, tokIn) ==
    LET proj == projects[p]
        totalRaised == PayOutAmount(proj, token.custody[p])
        zeroed == PayOutZeroed(proj)
        moved == IF tok = "ok" THEN Transfer(token, p, sender, totalRaised)
                 ELSE token
        back == Reenter(inner, caller, amount, tokIn, zeroed, moved, p, now)
        final == IF tok = "ok" THEN PayOutReturnedTrue(back[2])
                 ELSE PayOutFailed(back[2], totalRaised)
        paidOut == (IF tok = "ok" THEN totalRaised ELSE 0) + back[5]
    IN
    /\ tok \in {"ok", "false"}
    /\ tok = "ok" => CanTransfer(token, p, totalRaised)
    /\ IF ~PayOutAllowed(proj, sender)
       THEN Reverted("payOut", p, sender, <<>>)
       ELSE IF ~back[1]
       THEN Reverted("payOut", p, sender, Asked(totalRaised, "revert"))
       ELSE /\ projects' = [projects EXCEPT ![p] = final]
            /\ token' = back[3]
            /\ hist' = [hist EXCEPT ![p] =
                          [attempted |-> TRUE,
                           paid |-> \/ @.paid
                                    \/ tok = "ok"
                                    \/ inner = "payOut" /\ tokIn = "ok",
                           paidOut |-> @.paidOut + paidOut]]
            /\ lastCall' = [Call("payOut", p, sender,
                                 IF tok = "ok" THEN "true" ELSE "false",
                                 Asked(totalRaised, tok),
                                 back[4] \o PayOutEvents(proj, tok = "ok"))
                   EXCEPT !.was = proj.state,
                          !.args = <<inner, caller, amount>>]
            /\ UNCHANGED <<now, registry, faults>>

\* Variants of Push: the new project put first, and the push left out.
Push_Front(list, newProject) == <<newProject>> \o list
Push_Dropped(list, newProject) == list

\* startProject: projects.push(newProject)
Push(list, newProject) == Append(list, newProject)

\* CeloCrowdfund.startProject(...) sent by `sender`; the new Project contract
\* gets the next address.
StartProject(sender, meta, durationInDays, amountToRaise) ==
    LET p == Len(projects) + 1
        raiseUntil == now + durationInDays * SecondsPerDay
    IN
    IF \/ ~MulFits(durationInDays, SecondsPerDay)
       \/ ~AddFits(now, durationInDays * SecondsPerDay)
    THEN /\ lastCall' = [Call("startProject", p, sender, "reverted", <<>>, <<>>)
                            EXCEPT !.args = <<durationInDays, amountToRaise>>]
         /\ UNCHANGED <<now, registry, projects, token, hist, faults>>
    ELSE /\ projects' = Append(projects,
                               NewProject(sender, meta, raiseUntil, amountToRaise))
         /\ registry' = Push(registry, p)
         /\ token' = [token EXCEPT !.custody = Append(@, 0),
                                   !.allowance = Append(@, [a \in Addr |-> 0])]
         /\ hist' = Append(hist, [attempted |-> FALSE, paid |-> FALSE, paidOut |-> 0])
         /\ lastCall' = [Call("startProject", p, sender, "ok", <<>>,
                <<[name |-> "ProjectStarted", contractAddress |-> p,
                   projectCreator |-> sender, title |-> meta[1],
                   description |-> meta[2], imageLink |-> meta[3],
                   fundRaisingDeadline |-> raiseUntil,
                   goalAmount |-> amountToRaise]>>)
                EXCEPT !.args = <<durationInDays, amountToRaise>>]
         /\ UNCHANGED <<now, faults>>

\* CeloCrowdfund.returnProjects(): return projects
returnProjects == registry

----------------------------------------------------------------------------
(* The environment: the token's other users, and the clock *)

\* stableToken.approve(project, amount) sent by `owner`.
Approve(owner, p, amount) ==
    /\ token' = [token EXCEPT !.allowance[p][owner] = amount]
    /\ lastCall' = Call("token", 0, "", "ok", <<>>, <<>>)
    /\ UNCHANGED <<now, registry, projects, hist, faults>>

\* A plain ERC-20 transfer by a wallet to a project's address: it needs no
\* call of the project.
Donate(from, p, amount) ==
    /\ token.balanceOf[from] >= amount
    /\ token' = [token EXCEPT !.balanceOf[from] = @ - amount,
                              !.custody[p] = @ + amount]
    /\ lastCall' = Call("token", 0, "", "ok", <<>>, <<>>)
    /\ UNCHANGED <<now, registry, projects, hist, faults>>

\* A later block: a day has passed.
Tick ==
    /\ now < MaxTicks * SecondsPerDay
    /\ now' = now + SecondsPerDay
    /\ lastCall' = Call("tick", 0, "", "ok", <<>>, <<>>)
    /\ UNCHANGED <<registry, projects, token, hist, faults>>

----------------------------------------------------------------------------
(* The interaction script (interact.js, and its later version) *)

Versions == {"interact.js", "later"}

\* The account of the script's private key.
account == "alice"

\* The script before it is run, and at its start.
NotRun == [pc |-> "idle", version |-> "", result |-> <<>>,
           projectInstanceContract |-> 0]
Started(version) == [NotRun EXCEPT !.pc = "start", !.version = version]

\* Variant of SelectByLoop that leaves the loop after the first address.
SelectByLoop_First(result, instance) ==
    IF result = <<>> THEN instance ELSE Head(result)

\* interact.js: for (const projectAddress of result) { projectInstanceContract
\* = new web3.eth.Contract(Project.abi, projectAddress) }, starting from the
\* instance held so far (0: undefined).
RECURSIVE SelectByLoop(_, _)
SelectByLoop(result, instance) ==
    IF result = <<>> THEN instance
    ELSE SelectByLoop(Tail(result), Head(result))

\* result[i] of a JavaScript array: indices count from 0, and an index
\* outside the array gives undefined (0).
At(result, i) == IF i \in 0..(Len(result) - 1) THEN result[i + 1] ELSE 0

\* later version: result[result.length - 1]
SelectLast(result) == At(result, Len(result) - 1)

Select(version, result) ==
    IF version = "interact.js" THEN SelectByLoop(result, 0)
    ELSE SelectLast(result)

\* Variant of ApproveAmount: an approval of 1 cUSD, less than the script sends.
ApproveAmount_TooSmall(version) == 1

\* var projectGoal = BigNumber(5E18); var approveAmount = BigNumber(500E18)
ApproveAmount(version) ==
    IF version = "interact.js" THEN ApproveInteract ELSE ApproveLater

\* An awaited transaction that reverted rejects its promise, which nothing
\* catches: the script ends there.
Awaited(pc) == IF lastCall'.result = "reverted" THEN "failed" ELSE pc

\* await createProject(...): startProject(..., 5, projectGoal).send(...)
createProject ==
    /\ script.pc = "start"
    /\ Len(projects) < ScriptProjects
    /\ \E m \in Metas : StartProject(account, m, ScriptDays, ScriptGoal)
    /\ script' = [script EXCEPT !.pc = Awaited("created")]

\* var result = await celoCrowdfundContract.methods.returnProjects().call(),
\* and the choice of the project instance.
ReturnProjects ==
    /\ script.pc = "created"
    /\ script' = [script EXCEPT
                    !.pc = "listed",
                    !.result = returnProjects,
                    !.projectInstanceContract = Select(script.version, returnProjects)]
    /\ lastCall' = Call("returnProjects", 0, account, "ok", <<>>, <<>>)
    /\ UNCHANGED <<now, registry, projects, token, hist, faults>>

\* await stableToken.approve(projectInstanceContract._address, amount)
\*    .sendAndWaitForReceipt(...)
approve ==
    /\ script.pc = "listed"
    /\ Approve(account, script.projectInstanceContract, ApproveAmount(script.version))
    /\ script' = [script EXCEPT !.pc = "approved"]

\* await contribute(...): contribute(sendAmount).send(...)
contribute(tok) ==
    /\ script.pc = "approved"
    /\ Contribute(script.projectInstanceContract, account, SendAmount, tok)
    /\ script' = [script EXCEPT !.pc = Awaited("contributed")]

\* await payOut(...): payOut().send(...)
payOut(tok) ==
    /\ script.pc = "contributed"
    /\ PayOut(script.projectInstanceContract, account, tok)
    /\ script' = [script EXCEPT !.pc = Awaited("done")]

\* What another account does on the same chain while the script runs.
Other ==
    \/ \E m \in Metas :
          /\ Len(projects) < ScriptProjects
          /\ StartProject("bob", m, MaxDays, ScriptGoal)
          /\ UNCHANGED script
    \/ \E p \in 1..Len(projects), tok \in {"ok", "revert"} :
          Contribute(p, "bob", 0, tok) /\ UNCHANGED script
    \/ \E p \in 1..Len(projects) :
          CheckIfFundingExpired(p, "bob") /\ UNCHANGED script
    \/ \E p \in 1..Len(projects), tok \in {"ok", "revert"} :
          PayOut(p, "bob", tok) /\ UNCHANGED script
    \/ Tick /\ UNCHANGED script

----------------------------------------------------------------------------

Init ==
    /\ now = 0
    /\ registry = <<>>
    /\ projects = <<>>
    /\ token = [balanceOf |-> [a \in Addr |-> MaxAmount],
                custody |-> <<>>,
                allowance |-> <<>>]
    /\ hist = <<>>
    /\ faults = 0
    /\ lastCall = Call("deploy", 0, "", "ok", <<>>, <<>>)
    /\ script = NotRun

\* One transaction or one tick, with a token whose calls do one of `outcomes`.
Step(outcomes) ==
    \/ \E s \in Addr, m \in Metas, d \in Durations, g \in Goals :
          /\ Len(projects) < MaxProjects
          /\ StartProject(s, m, d, g)
          /\ UNCHANGED script
    \/ \E p \in 1..Len(projects), s \in Addr, a \in Amounts, tok \in outcomes :
          Contribute(p, s, a, tok) /\ UNCHANGED script
    \/ \E p \in 1..Len(projects), s \in Addr :
          CheckIfFundingExpired(p, s) /\ UNCHANGED script
    \/ \E p \in 1..Len(projects), s \in Addr, tok \in outcomes :
          PayOut(p, s, tok) /\ UNCHANGED script
    \/ \E p \in 1..Len(projects), s \in Addr, a \in 0..MaxAmount :
          Approve(s, p, a) /\ UNCHANGED script
    \/ \E p \in 1..Len(projects), s \in Addr, a \in 1..MaxAmount :
          Donate(s, p, a) /\ UNCHANGED script
    \/ Tick /\ UNCHANGED script

Next == Step(TokenOutcomes)

\* The same system with a token that, like cUSD, never returns false: a
\* transfer it cannot make reverts.
NextRevertingToken == Step({"ok", "revert"})

Spec == Init /\ [][Next]_vars

SpecRevertingToken == Init /\ [][NextRevertingToken]_vars

\* The registry with up to RegistryProjects campaigns, each with a deadline at
\* its creation time: alice funds them with a token that does every transfer,
\* bob checks expiry and anyone asks for payOut.
NextRegistry ==
    \/ \E s \in Addr, m \in Metas :
          /\ Len(projects) < RegistryProjects
          /\ StartProject(s, m, 0, 1)
          /\ UNCHANGED script
    \/ \E p \in 1..Len(projects) :
          Contribute(p, "alice", MaxAmount, "ok") /\ UNCHANGED script
    \/ \E p \in 1..Len(projects) :
          CheckIfFundingExpired(p, "bob") /\ UNCHANGED script
    \/ \E p \in 1..Len(projects), s \in Addr :
          PayOut(p, s, "ok") /\ UNCHANGED script
    \/ \E p \in 1..Len(projects) :
          Approve("alice", p, MaxAmount) /\ UNCHANGED script
    \/ Tick /\ UNCHANGED script

SpecRegistry == Init /\ [][NextRegistry]_vars

\* The system with a token that reverts what it cannot do in the plain calls,
\* and whose transfer may call back into the project during payOut.
NextReentrant ==
    \/ Step({"ok", "revert"})
    \/ \E p \in 1..Len(projects), s \in Addr, tok \in {"ok", "false"},
          caller \in Addr, tokIn \in TokenOutcomes :
          /\ PayOutReentered(p, s, tok, "payOut", caller, 0, tokIn)
          /\ UNCHANGED script
    \/ \E p \in 1..Len(projects), s \in Addr, tok \in {"ok", "false"},
          caller \in Addr, a \in 0..MaxAmount :
          /\ PayOutReentered(p, s, tok, "contribute", caller, a, "ok")
          /\ UNCHANGED script

SpecReentrant == Init /\ [][NextReentrant]_vars

\* One run of the interaction script from a funded wallet, against cUSD (a
\* token that reverts what it cannot do), with another account on the chain.
InitScript ==
    /\ now = 0
    /\ registry = <<>>
    /\ projects = <<>>
    /\ token = [balanceOf |-> [a \in Addr |-> IF a = account THEN WalletFunds
                                               ELSE MaxAmount],
                custody |-> <<>>,
                allowance |-> <<>>]
    /\ hist = <<>>
    /\ faults = 0
    /\ lastCall = Call("deploy", 0, "", "ok", <<>>, <<>>)
    /\ \E version \in Versions : script = Started(version)

NextScript ==
    \/ createProject
    \/ ReturnProjects
    \/ approve
    \/ \E tok \in {"ok", "revert"} : contribute(tok)
    \/ \E tok \in {"ok", "revert"} : payOut(tok)
    \/ Other

SpecScript == InitScript /\ [][NextScript]_vars

----------------------------------------------------------------------------
(* Properties *)

ProjectIds == 1..Len(projects)

\* The project the call of this step was sent to, before and after the step.
Before == projects[lastCall'.p]
After == projects'[lastCall'.p]

\* C1: as long as no payOut of a project has gone through (only startProject,
\* contribute and checkIfFundingExpired calls), its currentBalance is the sum
\* of its contributions over all contributors.
C1_BalanceConservation ==
    \A p \in ProjectIds :
        ~hist[p].attempted =>
            projects[p].currentBalance = TotalContributed(projects[p])

\* Both contributors have contributed and no payOut has been made.
C1_Witness ==
    \E p \in ProjectIds :
        /\ ~hist[p].attempted
        /\ \A a \in Addr : projects[p].contributions[a] > 0
        /\ lastCall.op = "contribute" /\ lastCall.result = "ok"

\* C2 (as claimed): once a project's state is Expired or Successful, no step
\* changes it to a different value.
C2_TerminalStates ==
    [][\A p \in ProjectIds :
          projects[p].state \in {"Expired", "Successful"} =>
              projects'[p].state = projects[p].state]_vars

\* C3: a payOut sent by anyone but the creator reverts before asking the token
\* for anything, emits nothing, and leaves the projects and the token as they
\* were.
C3_NonCreatorPayOutRejected ==
    [][(lastCall'.op = "payOut" /\ lastCall'.sender # Before.creator) =>
          /\ lastCall'.result = "reverted"
          /\ lastCall'.requested = <<>>
          /\ lastCall'.events = <<>>
          /\ projects' = projects
          /\ token' = token]_vars

\* A non-creator has just tried payOut on a project that holds funds.
C3_Witness ==
    /\ lastCall.op = "payOut"
    /\ lastCall.sender # projects[lastCall.p].creator
    /\ lastCall.result = "reverted"
    /\ projects[lastCall.p].currentBalance > 0
    /\ token.custody[lastCall.p] > 0

\* C4: a contribute sent while the state is Expired or Successful reverts
\* before asking the token for anything and leaves the projects and the token
\* as they were, whoever sends it and whatever the amount.
C4_ContributeStateGuard ==
    [][(lastCall'.op = "contribute" /\ Before.state \in {"Expired", "Successful"}) =>
          /\ lastCall'.result = "reverted"
          /\ lastCall'.requested = <<>>
          /\ lastCall'.events = <<>>
          /\ projects' = projects
          /\ token' = token]_vars

\* A contribute has just been rejected on an expired project.
C4_Witness ==
    /\ lastCall.op = "contribute"
    /\ lastCall.result = "reverted"
    /\ lastCall.requested = <<>>
    /\ projects[lastCall.p].state = "Expired"

\* C5 (as claimed): a contribute executed at a time past raisingDeadline moves
\* nothing into custody and raises neither currentBalance nor any
\* contributions entry.
C5_NoFundsAfterDeadline ==
    [][(lastCall'.op = "contribute" /\ now > Before.raisingDeadline) =>
          /\ token'.custody[lastCall'.p] <= token.custody[lastCall'.p]
          /\ After.currentBalance <= Before.currentBalance
          /\ \A a \in Addr : After.contributions[a] <= Before.contributions[a]]_vars

\* C6: what a project's payOut calls have transferred to the creator, in
\* total, never exceeds what has been contributed to it (the sum of its
\* contributions).
C6_NoDoubleSpend ==
    \A p \in ProjectIds : hist[p].paidOut <= TotalContributed(projects[p])

\* A payOut has paid, funds are left in custody, and a further payOut was tried.
C6_Witness ==
    \E p \in ProjectIds :
        /\ hist[p].paidOut > 0
        /\ token.custody[p] > 0
        /\ lastCall.op = "payOut" /\ lastCall.p = p
        /\ lastCall.result = "false"

\* C7: when a payOut's token transfer succeeds, the sender is the creator, the
\* amount asked for and moved from custody to the creator is the currentBalance
\* at the call, currentBalance becomes 0, the state becomes Successful, one
\* CreatorPaid is emitted and the call returns true.
C7_SuccessfulPayOut ==
    [][(/\ lastCall'.op = "payOut"
        /\ lastCall'.requested # <<>>
        /\ lastCall'.requested[1].outcome = "ok") =>
          /\ lastCall'.sender = Before.creator
          /\ lastCall'.requested[1].amount = Before.currentBalance
          /\ token'.custody[lastCall'.p] =
                 token.custody[lastCall'.p] - Before.currentBalance
          /\ token'.balanceOf[Before.creator] =
                 token.balanceOf[Before.creator] + Before.currentBalance
          /\ After.currentBalance = 0
          /\ After.state = "Successful"
          /\ lastCall'.events = <<[name |-> "CreatorPaid", recipient |-> Before.creator]>>
          /\ lastCall'.result = "true"]_vars

\* A payOut has just paid a positive balance out of a fundraising project's
\* custody.
C7_Witness ==
    /\ lastCall.op = "payOut"
    /\ lastCall.result = "true"
    /\ lastCall.requested[1].amount > 0
    /\ token.custody[lastCall.p] = 0
    /\ projects[lastCall.p].state = "Successful"

\* C8: once a payOut of a project has succeeded, its currentBalance is 0 in
\* every later state.
C8_ZeroAfterPayOut ==
    \A p \in ProjectIds : hist[p].paid => projects[p].currentBalance = 0

\* After a payOut that paid, a further contribute has been tried.
C8_Witness ==
    \E p \in ProjectIds :
        /\ hist[p].paid
        /\ hist[p].paidOut > 0
        /\ lastCall.op = "contribute" /\ lastCall.p = p

\* C9: the amount a payOut asks the token to transfer is never more than the
\* project's currentBalance when the call was made.
C9_NoOverdraw ==
    [][(lastCall'.op = "payOut" /\ lastCall'.requested # <<>>) =>
          lastCall'.requested[1].amount <= Before.currentBalance]_vars

\* A payOut has paid a positive amount and custody still holds more (funds
\* that reached the project's address without contribute).
C9_Witness ==
    /\ lastCall.op = "payOut"
    /\ lastCall.result = "true"
    /\ lastCall.requested[1].amount > 0
    /\ token.custody[lastCall.p] > 0

\* C10: when a payOut by the creator directly follows a payOut of the same
\* project that succeeded, it asks the token for 0 and leaves currentBalance
\* at 0 and the state at Successful.
C10_DoublePayOut ==
    [][(/\ lastCall.op = "payOut" /\ lastCall.result = "true"
        /\ lastCall'.op = "payOut" /\ lastCall'.p = lastCall.p
        /\ lastCall'.sender = Before.creator) =>
          /\ lastCall'.requested # <<>>
          /\ lastCall'.requested[1].amount = 0
          /\ After.currentBalance = 0
          /\ After.state = "Successful"]_vars

\* A payOut asking for 0 has returned true after an earlier payOut paid a
\* positive amount.
C10_Witness ==
    /\ lastCall.op = "payOut"
    /\ lastCall.result = "true"
    /\ lastCall.requested[1].amount = 0
    /\ hist[lastCall.p].paidOut > 0

\* C11: when a payOut's token transfer returns false, currentBalance is what it
\* was at the call, the contributions are unchanged, the token has moved
\* nothing, no CreatorPaid is emitted, the state is Successful and the call
\* returns false.
C11_FailedPayOut ==
    [][(/\ lastCall'.op = "payOut"
        /\ lastCall'.requested # <<>>
        /\ lastCall'.requested[1].outcome = "false") =>
          /\ lastCall'.sender = Before.creator
          /\ lastCall'.requested[1].amount = Before.currentBalance
          /\ After.currentBalance = Before.currentBalance
          /\ After.contributions = Before.contributions
          /\ token' = token
          /\ lastCall'.events = <<>>
          /\ After.state = "Successful"
          /\ lastCall'.result = "false"]_vars

\* A payOut of a fundraising project with a positive balance has just failed.
C11_Witness ==
    /\ lastCall.op = "payOut"
    /\ lastCall.result = "false"
    /\ lastCall.was = "Fundraising"
    /\ projects[lastCall.p].currentBalance > 0
    /\ projects[lastCall.p].state = "Successful"

\* C12 (as claimed): when the token's transferFrom reports failure (returns
\* false or reverts), the contribute call reverts, emits nothing and leaves
\* the projects as they were.
C12_ContributeAtomic ==
    [][(/\ lastCall'.op = "contribute"
        /\ lastCall'.requested # <<>>
        /\ lastCall'.requested[1].outcome # "ok") =>
          /\ lastCall'.result = "reverted"
          /\ lastCall'.events = <<>>
          /\ projects' = projects]_vars

\* The call of this step went through (did not revert) and was `op` on project p.
Did(op, p) ==
    /\ lastCall'.op = op
    /\ lastCall'.p = p
    /\ lastCall'.result # "reverted"

\* C13 (as claimed): a tick changes no project; a project in Fundraising past
\* its deadline stays in Fundraising on every step but a checkIfFundingExpired
\* or contribute of it that goes through, and after such a call it is Expired.
C13_LazyExpiry ==
    [][/\ lastCall'.op = "tick" => projects' = projects
       /\ \A p \in ProjectIds :
            (projects[p].state = "Fundraising" /\ now > projects[p].raisingDeadline) =>
                projects'[p].state =
                    IF Did("checkIfFundingExpired", p) \/ Did("contribute", p)
                    THEN "Expired" ELSE "Fundraising"]_vars

\* C13 (amended): as C13, but a payOut of the creator that goes through also
\* ends Fundraising, and leaves the project Successful.
C13_LazyExpiryOrPayOut ==
    [][/\ lastCall'.op = "tick" => projects' = projects
       /\ \A p \in ProjectIds :
            (projects[p].state = "Fundraising" /\ now > projects[p].raisingDeadline) =>
                projects'[p].state =
                    IF Did("checkIfFundingExpired", p) \/ Did("contribute", p)
                    THEN "Expired"
                    ELSE IF Did("payOut", p) /\ lastCall'.sender = projects[p].creator
                    THEN "Successful" ELSE "Fundraising"]_vars

\* A contribute sent past the deadline to a project still in Fundraising has
\* gone through and left it Expired.
C13_Witness ==
    /\ lastCall.op = "contribute"
    /\ lastCall.result = "ok"
    /\ lastCall.was = "Fundraising"
    /\ projects[lastCall.p].state = "Expired"
    /\ now > projects[lastCall.p].raisingDeadline

\* C14 (as claimed): checkIfFundingExpired sets the state to Expired exactly
\* when the deadline has passed and the state is Fundraising, and changes
\* nothing otherwise; it never changes currentBalance or contributions; a second
\* call at the same clock value would leave the state it left.
C14_CheckExpiryGuarded ==
    [][Did("checkIfFundingExpired", lastCall'.p) =>
          /\ After.state =
                IF now > Before.raisingDeadline /\ Before.state = "Fundraising"
                THEN "Expired" ELSE Before.state
          /\ After.currentBalance = Before.currentBalance
          /\ After.contributions = Before.contributions
          /\ checkIfFundingExpired(After, now') = After.state]_vars

\* C15 (as claimed): a project's state, currentBalance and contributions are
\* changed only by contribute and payOut calls on it; no other operation and
\* no tick changes any of them.
C15_OnlyContributeAndPayOut ==
    [][\A p \in ProjectIds :
          (\/ projects'[p].state # projects[p].state
           \/ projects'[p].currentBalance # projects[p].currentBalance
           \/ projects'[p].contributions # projects[p].contributions) =>
                Did("contribute", p) \/ Did("payOut", p)]_vars

\* C15 (amended): the state is changed only by contribute, payOut and
\* checkIfFundingExpired calls on the project, currentBalance only by contribute
\* and payOut, contributions only by contribute; every other step, ticks and
\* calls on the token and the registry included, changes none of them.
C15_OnlyProjectCalls ==
    [][\A p \in ProjectIds :
          /\ projects'[p].state # projects[p].state =>
                \/ Did("contribute", p)
                \/ Did("payOut", p)
                \/ Did("checkIfFundingExpired", p)
          /\ projects'[p].currentBalance # projects[p].currentBalance =>
                Did("contribute", p) \/ Did("payOut", p)
          /\ projects'[p].contributions # projects[p].contributions =>
                Did("contribute", p)]_vars

\* A checkIfFundingExpired call has changed the state of a project that holds
\* contributions.
C15_Witness ==
    /\ lastCall.op = "checkIfFundingExpired"
    /\ lastCall.was = "Fundraising"
    /\ projects[lastCall.p].state = "Expired"
    /\ projects[lastCall.p].currentBalance > 0

\* C16: a contribute that goes through with the token transfer done adds
\* exactly the amount to the sender's contributions entry and to
\* currentBalance, leaves every other entry as it was, and emits one
\* ReceivedFunding with the sender, the amount and the new currentBalance.
C16_ContributeEffect ==
    [][(/\ lastCall'.op = "contribute"
        /\ lastCall'.result = "ok"
        /\ lastCall'.requested[1].outcome = "ok") =>
          LET c == lastCall'.sender
              amount == lastCall'.requested[1].amount
          IN /\ Before.state = "Fundraising"
             /\ After.contributions[c] = Before.contributions[c] + amount
             /\ After.currentBalance = Before.currentBalance + amount
             /\ \A a \in Addr \ {c} :
                    After.contributions[a] = Before.contributions[a]
             /\ lastCall'.events =
                    <<[name |-> "ReceivedFunding", contributor |-> c,
                       amount |-> amount,
                       currentTotal |-> After.currentBalance]>>]_vars

\* A second contribution of one sender has gone through while another
\* contributor also has an entry.
C16_Witness ==
    /\ lastCall.op = "contribute"
    /\ lastCall.result = "ok"
    /\ lastCall.requested[1].outcome = "ok"
    /\ lastCall.requested[1].amount > 0
    /\ projects[lastCall.p].contributions[lastCall.sender]
          > lastCall.requested[1].amount
    /\ \E a \in Addr \ {lastCall.sender} :
          projects[lastCall.p].contributions[a] > 0

C18_ContributionsMonotone ==
    [][\A p \in ProjectIds : \A a \in Addr :
          projects'[p].contributions[a] >= projects[p].contributions[a]]_vars

\* A payOut has transferred the balance and the contributor's entry is still
\* there.
C18_Witness ==
    /\ lastCall.op = "payOut"
    /\ lastCall.result = "true"
    /\ lastCall.requested[1].amount > 0
    /\ \E a \in Addr : projects[lastCall.p].contributions[a] > 0

\* C19: a startProject sent by C at time t with durationInDays d and goal g
\* that goes through creates a project whose creator is C, whose raisingDeadline
\* is t + d * 86400, whose goalAmount is g, in state Fundraising with
\* currentBalance 0 and every contributions entry 0, and emits one
\* ProjectStarted with that creator, deadline and goal.
C19_StartProject ==
    [][(lastCall'.op = "startProject" /\ lastCall'.result = "ok") =>
          LET C == lastCall'.sender
              d == lastCall'.args[1]
              g == lastCall'.args[2]
              new == projects'[lastCall'.p]
          IN /\ Len(projects') = Len(projects) + 1
             /\ lastCall'.p = Len(projects')
             /\ new.creator = C
             /\ new.raisingDeadline = now + d * 86400
             /\ new.goalAmount = g
             /\ new.state = "Fundraising"
             /\ new.currentBalance = 0
             /\ \A a \in Addr : new.contributions[a] = 0
             /\ Len(lastCall'.events) = 1
             /\ lastCall'.events[1].name = "ProjectStarted"
             /\ lastCall'.events[1].projectCreator = C
             /\ lastCall'.events[1].fundRaisingDeadline = now + d * 86400
             /\ lastCall'.events[1].goalAmount = g]_vars

\* A startProject with a duration and a goal greater than 0 has gone through
\* at a clock value greater than 0.
C19_Witness ==
    /\ lastCall.op = "startProject"
    /\ lastCall.result = "ok"
    /\ lastCall.args[1] > 0
    /\ lastCall.args[2] > 0
    /\ now > 0
    /\ projects[lastCall.p].raisingDeadline > now

\* C20: the registry's list is append-only and ordered: a startProject that
\* goes through makes it one longer by putting the new handle at the end, no
\* other step changes it, every entry stays where it is, and returnProjects
\* is the handles created so far in creation order (after three startProject
\* calls, the three handles in that order).
C20_RegistryAppendOnly ==
    [][/\ IF lastCall'.op = "startProject" /\ lastCall'.result = "ok"
          THEN /\ Len(registry') = Len(registry) + 1
               /\ registry'[Len(registry')] = lastCall'.p
               /\ lastCall'.p = Len(projects')
          ELSE registry' = registry
       /\ \A i \in 1..Len(registry) : registry'[i] = registry[i]
       /\ returnProjects' = [i \in 1..Len(projects') |-> i]
       /\ Len(projects') = 3 => returnProjects' = <<1, 2, 3>>]_vars

\* Three campaigns have been started, the second and the third by different
\* senders, and a payOut of the first has gone through since.
C20_Witness ==
    /\ Len(returnProjects) = 3
    /\ projects[returnProjects[2]].creator # projects[returnProjects[3]].creator
    /\ lastCall.op = "payOut"
    /\ lastCall.p = returnProjects[1]
    /\ lastCall.result = "true"

\* C21: no step changes the creator, title, description, imageLink, goalAmount
\* or raisingDeadline of a project: they keep the values the constructor gave
\* them under every contribute, checkIfFundingExpired and payOut call.
C21_ImmutableFields ==
    [][\A p \in ProjectIds :
          /\ projects'[p].creator = projects[p].creator
          /\ projects'[p].title = projects[p].title
          /\ projects'[p].description = projects[p].description
          /\ projects'[p].imageLink = projects[p].imageLink
          /\ projects'[p].goalAmount = projects[p].goalAmount
          /\ projects'[p].raisingDeadline = projects[p].raisingDeadline]_vars

\* A project that took a contribution and was paid out has since been marked
\* Expired: all three operations have acted on it.
C21_Witness ==
    \E p \in ProjectIds :
        /\ hist[p].paid
        /\ hist[p].paidOut > 0
        /\ projects[p].state = "Expired"
        /\ lastCall.op = "checkIfFundingExpired"
        /\ lastCall.p = p

\* C22: a contribute whose amount would take currentBalance or the sender's
\* contributions entry over the largest uint is rejected and leaves the
\* project and the token as they were; in every state reached, currentBalance
\* and every contributions entry are within 0..MaxUint.
C22_NoWrap ==
    [][/\ (/\ lastCall'.op = "contribute"
           /\ lastCall'.requested # <<>>
           /\ LET amount == lastCall'.requested[1].amount
              IN \/ Before.currentBalance + amount > 2^UintBits - 1
                 \/ Before.contributions[lastCall'.sender] + amount
                        > 2^UintBits - 1) =>
             /\ lastCall'.result = "reverted"
             /\ projects' = projects
             /\ token' = token
       /\ \A p \in 1..Len(projects') :
             /\ projects'[p].currentBalance \in 0..(2^UintBits - 1)
             /\ \A a \in Addr :
                   projects'[p].contributions[a] \in 0..(2^UintBits - 1)]_vars

\* A contribute of an amount greater than 0 has been rejected on a project in
\* Fundraising whose currentBalance is already the largest uint, although the
\* sender had the tokens and the allowance for it.
C22_Witness ==
    /\ lastCall.op = "contribute"
    /\ lastCall.result = "reverted"
    /\ lastCall.requested # <<>>
    /\ lastCall.requested[1].amount > 0
    /\ projects[lastCall.p].state = "Fundraising"
    /\ projects[lastCall.p].currentBalance = 2^UintBits - 1
    /\ CanTransferFrom(token, lastCall.sender, lastCall.p,
                       lastCall.requested[1].amount)

\* C23 (as claimed): every startProject call, whatever its durationInDays and
\* amountToRaise, goes through and appends a project.
C23_StartProjectNeverFails ==
    [][lastCall'.op = "startProject" =>
          /\ lastCall'.result = "ok"
          /\ Len(projects') = Len(projects) + 1]_vars

\* C23 (amended): a startProject call goes through and appends a project to
\* the registry exactly when now + durationInDays * 86400 fits a uint, whatever
\* amountToRaise is (0 included); otherwise it reverts and appends nothing.
C23_StartProjectFailsOnOverflowOnly ==
    [][lastCall'.op = "startProject" =>
          LET d == lastCall'.args[1]
          IN IF now + d * 86400 <= 2^UintBits - 1
             THEN /\ lastCall'.result = "ok"
                  /\ Len(projects') = Len(projects) + 1
                  /\ registry' = Append(registry, Len(projects'))
                  /\ projects'[Len(projects')].goalAmount = lastCall'.args[2]
             ELSE /\ lastCall'.result = "reverted"
                  /\ projects' = projects
                  /\ registry' = registry]_vars

\* A startProject with durationInDays 0 and amountToRaise 0 has gone through.
C23_Witness ==
    /\ lastCall.op = "startProject"
    /\ lastCall.result = "ok"
    /\ lastCall.args = <<0, 0>>
    /\ Len(registry) = Len(projects)
    /\ projects[lastCall.p].goalAmount = 0

\* C24: a contribute of amount 0 to a project in Fundraising that the token
\* does not revert goes through: currentBalance and every contributions entry
\* stay as they are, one ReceivedFunding with amount 0 and the unchanged
\* currentBalance is emitted, and expiry is evaluated (the project is Expired
\* afterwards exactly when its deadline has passed).
C24_ZeroContribution ==
    [][(/\ lastCall'.op = "contribute"
        /\ Before.state = "Fundraising"
        /\ lastCall'.requested # <<>>
        /\ lastCall'.requested[1].amount = 0
        /\ lastCall'.requested[1].outcome # "revert") =>
          /\ lastCall'.result = "ok"
          /\ After.currentBalance = Before.currentBalance
          /\ After.contributions = Before.contributions
          /\ lastCall'.events =
                <<[name |-> "ReceivedFunding", contributor |-> lastCall'.sender,
                   amount |-> 0, currentTotal |-> Before.currentBalance]>>
          /\ After.state = IF now > Before.raisingDeadline
                           THEN "Expired" ELSE "Fundraising"]_vars

\* A contribute of 0 has gone through on an overdue project that holds a
\* balance, and has left it Expired.
C24_Witness ==
    /\ lastCall.op = "contribute"
    /\ lastCall.result = "ok"
    /\ lastCall.requested[1].amount = 0
    /\ lastCall.was = "Fundraising"
    /\ projects[lastCall.p].state = "Expired"
    /\ projects[lastCall.p].currentBalance > 0

\* The script's position moves from `from` to `to` in this step, by a call `op`.
Moves(from, to, op) ==
    /\ script.pc = from
    /\ script'.pc = to
    /\ lastCall'.op = op

\* C25: the script sends startProject, returnProjects, approve, contribute and
\* payOut in that order, each after the one before it has completed (a
\* reverted one ends the script); the approval is 5 cUSD or 500 cUSD, the
\* contribution 2 cUSD, and when contribute is sent the allowance the account
\* gave the chosen project covers the contribution.
C25_ScriptOrder ==
    [][/\ script'.pc # script.pc =>
            \/ Moves("start", "created", "startProject")
            \/ Moves("start", "failed", "startProject")
            \/ Moves("created", "listed", "returnProjects")
            \/ Moves("listed", "approved", "token")
            \/ Moves("approved", "contributed", "contribute")
            \/ Moves("approved", "failed", "contribute")
            \/ Moves("contributed", "done", "payOut")
            \/ Moves("contributed", "failed", "payOut")
       /\ script.pc = "listed" /\ script'.pc = "approved" =>
            /\ token'.allowance[script.projectInstanceContract][account]
                  \in {5, 500}
            /\ token'.allowance[script.projectInstanceContract][account] >= 2
       /\ script.pc = "approved" =>
            /\ script.projectInstanceContract \in ProjectIds
            /\ token.allowance[script.projectInstanceContract][account] >= 2
            /\ script'.pc # "approved" =>
                  /\ lastCall'.p = script.projectInstanceContract
                  /\ lastCall'.sender = account
                  /\ lastCall'.requested # <<>> =>
                        lastCall'.requested[1].amount = 2]_vars

\* The script's contribute has gone through on a chain where the other account
\* has a project too and a day has gone by.
C25_Witness ==
    /\ script.pc = "contributed"
    /\ lastCall.op = "contribute"
    /\ lastCall.result = "ok"
    /\ lastCall.sender = account
    /\ lastCall.requested[1].amount = 2
    /\ Len(projects) > 1
    /\ now > 0

\* C26 (as claimed): the script's contribute raises the custody of its project
\* by 2 cUSD and lowers the wallet by 2 cUSD; the payOut the same account sends
\* next, unless the token reverts the transfer, leaves the custody at 0, the
\* 2 cUSD back in the wallet and the project Successful.
C26_EndToEnd ==
    [][LET p == script.projectInstanceContract IN
       /\ script.pc = "approved" /\ script'.pc = "contributed" =>
            /\ token'.custody[p] = token.custody[p] + 2
            /\ token'.balanceOf[account] = token.balanceOf[account] - 2
       /\ (/\ script.pc = "contributed"
           /\ script'.pc # "contributed"
           /\ ~(/\ lastCall'.requested # <<>>
                /\ lastCall'.requested[1].outcome = "revert")) =>
            /\ script'.pc = "done"
            /\ token'.custody[p] = 0
            /\ token'.balanceOf[account] = token.balanceOf[account] + 2
            /\ projects'[p].state = "Successful"]_vars

\* The non-empty lists of up to ScriptProjects addresses.
Lists == UNION {[1..n -> 1..ScriptProjects] : n \in 1..ScriptProjects}

C28_ExpiryFirst ==
    [][(/\ lastCall'.op \in {"contribute", "payOut"}
        /\ Before.state = "Fundraising"
        /\ now > Before.raisingDeadline) =>
          /\ lastCall'.op = "contribute" =>
                /\ After.currentBalance = Before.currentBalance
                /\ After.contributions = Before.contributions
                /\ lastCall'.events = <<>>
          /\ (lastCall'.op = "payOut" /\ lastCall'.result # "reverted") =>
                lastCall'.was = "Expired"]_vars

\* C29 (as claimed): a project starts with custody and currentBalance both 0,
\* and every step other than a direct use of the token (contribute and payOut
\* with a failed token transfer included) takes a project whose custody equals
\* its currentBalance to one whose custody equals its currentBalance.
C29_CustodyMatchesLedger ==
    [][/\ lastCall'.op = "startProject" /\ lastCall'.result = "ok" =>
             /\ token'.custody[lastCall'.p] = 0
             /\ projects'[lastCall'.p].currentBalance = 0
       /\ \A p \in ProjectIds :
             (/\ token.custody[p] = projects[p].currentBalance
              /\ lastCall'.op # "token") =>
                  token'.custody[p] = projects'[p].currentBalance]_vars

\* C30 (as claimed): a failed payOut does not lock the funds: after a payOut
\* that went through without paying the balance (currentBalance restored to
\* B > 0), the project's custody covers B, so that a token that works can do
\* the transfer, and a later payOut of the creator in which the token does it
\* moves B to the creator and leaves currentBalance 0.
C30_FailedPayOutRetry ==
    [][\A p \in ProjectIds :
          (hist[p].attempted /\ projects[p].currentBalance > 0) =>
              /\ CanTransfer(token, p, projects[p].currentBalance)
              /\ (/\ lastCall'.op = "payOut"
                  /\ lastCall'.p = p
                  /\ lastCall'.result = "true") =>
                    /\ lastCall'.sender = projects[p].creator
                    /\ token'.balanceOf[projects[p].creator] =
                          token.balanceOf[projects[p].creator]
                             + projects[p].currentBalance
                    /\ projects'[p].currentBalance = 0]_vars

\* C31: a payOut sent by the creator to a project in Fundraising before its
\* deadline, whatever its currentBalance (0 and below goalAmount included), is
\* let in and, unless the token reverts, leaves the project Successful; once a
\* payOut of a project has gone through, every contribute to it is rejected and
\* changes nothing.
C31_EarlyPayOut ==
    [][/\ (/\ lastCall'.op = "payOut"
           /\ lastCall'.sender = Before.creator
           /\ Before.state = "Fundraising"
           /\ now <= Before.raisingDeadline) =>
             /\ lastCall'.requested # <<>>
             /\ lastCall'.requested[1].outcome # "revert" =>
                   /\ lastCall'.result \in {"true", "false"}
                   /\ After.state = "Successful"
       /\ (lastCall'.op = "contribute" /\ hist[lastCall'.p].attempted) =>
             /\ lastCall'.result = "reverted"
             /\ projects' = projects
             /\ token' = token]_vars

\* A contribute has been rejected before the deadline on a project that the
\* creator closed by a payOut while its balance was below the goal.
C31_Witness ==
    /\ lastCall.op = "contribute"
    /\ lastCall.result = "reverted"
    /\ hist[lastCall.p].attempted
    /\ projects[lastCall.p].state = "Successful"
    /\ now <= projects[lastCall.p].raisingDeadline
    /\ TotalContributed(projects[lastCall.p]) < projects[lastCall.p].goalAmount

\* C32: the state of a project becomes Successful only by a payOut of its
\* creator that goes through; a contribute to a project in Fundraising is let
\* in whatever currentBalance and goalAmount are (unless the token or an
\* overflow reverts it), and when the deadline has not passed it leaves the
\* project in Fundraising, also with currentBalance at or above goalAmount.
C32_GoalIgnored ==
    [][/\ \A p \in ProjectIds :
             (projects'[p].state = "Successful" /\ projects[p].state # "Successful") =>
                 Did("payOut", p) /\ lastCall'.sender = projects[p].creator
       /\ (lastCall'.op = "contribute" /\ Before.state = "Fundraising") =>
             /\ lastCall'.requested # <<>>
             /\ lastCall'.requested[1].outcome # "revert" =>
                   /\ lastCall'.result = "ok"
                   /\ After.state = IF now > Before.raisingDeadline
                                    THEN "Expired" ELSE "Fundraising"]_vars

\* A contribution has taken currentBalance above a goal greater than 0 and the
\* project is still in Fundraising.
C32_Witness ==
    /\ lastCall.op = "contribute"
    /\ lastCall.result = "ok"
    /\ lastCall.requested[1].amount > 0
    /\ projects[lastCall.p].goalAmount > 0
    /\ projects[lastCall.p].currentBalance > projects[lastCall.p].goalAmount
    /\ projects[lastCall.p].state = "Fundraising"

\* C33: whenever the custody of a project goes down, the step is a payOut of
\* that project sent by its creator, what left the custody has gone to the
\* creator's wallet, and no other wallet has changed: nothing flows back to a
\* contributor, in any state.
C33_FundsOnlyToCreator ==
    [][\A p \in ProjectIds :
          token'.custody[p] < token.custody[p] =>
              /\ Did("payOut", p)
              /\ lastCall'.sender = projects[p].creator
              /\ token'.balanceOf =
                    [token.balanceOf EXCEPT ![projects[p].creator] =
                        @ + (token.custody[p] - token'.custody[p])]]_vars

\* A payOut has emptied an Expired project to which an account other than the
\* creator had contributed.
C33_Witness ==
    /\ lastCall.op = "payOut"
    /\ lastCall.result = "true"
    /\ lastCall.was = "Expired"
    /\ lastCall.requested[1].amount > 0
    /\ \E a \in Addr \ {projects[lastCall.p].creator} :
          projects[lastCall.p].contributions[a] > 0

\* C34: a step emits CreatorPaid only when it is a payOut of the creator whose
\* token transfer was done; such a payOut emits it exactly once, with the
\* creator as recipient, and nothing else; a payOut whose transfer returned
\* false or reverted, or that was rejected, emits nothing.
C34_CreatorPaidOnSuccess ==
    [][/\ (\E i \in 1..Len(lastCall'.events) :
               lastCall'.events[i].name = "CreatorPaid") =>
             /\ lastCall'.op = "payOut"
             /\ lastCall'.sender = Before.creator
             /\ lastCall'.result = "true"
             /\ lastCall'.requested[1].outcome = "ok"
       /\ lastCall'.op = "payOut" =>
             lastCall'.events =
                IF lastCall'.requested # <<>> /\ lastCall'.requested[1].outcome = "ok"
                THEN <<[name |-> "CreatorPaid", recipient |-> Before.creator]>>
                ELSE <<>>]_vars

\* A payOut whose transfer returned false has gone through with no event, on
\* a project that an earlier payOut had paid.
C34_Witness ==
    /\ lastCall.op = "payOut"
    /\ lastCall.result = "false"
    /\ lastCall.events = <<>>
    /\ hist[lastCall.p].paid

\* C35: a contribute, checkIfFundingExpired or payOut on one project leaves
\* every other project (all its fields) and the registry's list as they were,
\* and changes the custody of no other project; a startProject leaves every
\* existing project as it was.
C35_ProjectsIndependent ==
    [][/\ lastCall'.op \in {"contribute", "checkIfFundingExpired", "payOut"} =>
             /\ registry' = registry
             /\ Len(projects') = Len(projects)
             /\ \A q \in ProjectIds \ {lastCall'.p} :
                   /\ projects'[q] = projects[q]
                   /\ token'.custody[q] = token.custody[q]
       /\ lastCall'.op = "startProject" =>
             \A q \in ProjectIds : projects'[q] = projects[q]]_vars

\* With three projects, a checkIfFundingExpired has marked one Expired while
\* another, overdue as well, is still in Fundraising and a third is Successful.
C35_Witness ==
    /\ Len(projects) = 3
    /\ lastCall.op = "checkIfFundingExpired"
    /\ lastCall.was = "Fundraising"
    /\ projects[lastCall.p].state = "Expired"
    /\ \E q \in ProjectIds \ {lastCall.p} :
          /\ projects[q].state = "Fundraising"
          /\ now > projects[q].raisingDeadline
    /\ \E q \in ProjectIds : projects[q].state = "Successful"

\* C36 (as claimed): when the token's transfer calls back into the project's
\* payOut or contribute during a payOut, then after that payOut, whether its
\* transfer moved the funds or returned false, no more than the balance the
\* project had has been paid out, and if the custody equalled currentBalance
\* before the call it equals currentBalance after it.
C36_Reentrancy ==
    [][(/\ lastCall'.op = "payOut"
        /\ lastCall'.args # <<>>
        /\ lastCall'.result # "reverted") =>
          LET p == lastCall'.p IN
          /\ hist'[p].paidOut - hist[p].paidOut <= Before.currentBalance
          /\ token.custody[p] - token'.custody[p] <= Before.currentBalance
          /\ token.custody[p] = Before.currentBalance =>
                token'.custody[p] = After.currentBalance]_vars

\* C37 (as claimed): with other accounts sending startProject to the same
\* CeloCrowdfund while the script runs, the project the script chooses after
\* returnProjects is the one its own startProject created: its creator is the
\* script's account, and the script's payOut gets past the creator check.
C37_OwnProjectSelected ==
    [][/\ script.pc = "created" /\ script'.pc = "listed" =>
             /\ projects[script'.projectInstanceContract].creator = account
             /\ PayOutAllowed(projects[script'.projectInstanceContract], account)
       /\ (/\ script.pc = "contributed"
           /\ script'.pc # "contributed") =>
             /\ lastCall'.op = "payOut"
             /\ lastCall'.sender = account
             /\ lastCall'.requested # <<>>]_vars

====
